---- MODULE Spec2Model ----
(***************************************************************************)
(* The signer run loop of stacks-signer/src/runloop.rs: RunLoop::          *)
(* run_one_pass and its helpers (process_event, verify_msg,                *)
(* calculate_coordinator, should_run_dkg, process_next_command,            *)
(* execute_command); and, apart from it, wait_for_dkg_end of the legacy   *)
(* coordinator, testnet/stacks-signer/src/bin/coordinator.rs.              *)
(*                                                                         *)
(* The protocol engines (wsts SigningRound and Coordinatable) and the      *)
(* StacksClient are collaborators of the run loop: every result they can   *)
(* return to it (Ok / Err, messages, operation results, ledger answers)    *)
(* is a nondeterministic choice of the action that makes the call.         *)
(*                                                                         *)
(* One call of run_one_pass is a sequence of steps in a fixed order; pc    *)
(* is the position inside the call:                                        *)
(*   "tick"   no call is running (the host loop waits for an event),       *)
(*   "event"  process_event has called the engines with the filtered list, *)
(*   "send"   process_event has returned, the send loop (311-320) is next, *)
(*   "results" the packets are sent, lines 321-332 are next,               *)
(*   "check"  lines 301-333 are done, should_run_dkg is next,              *)
(*   "next"   lines 336-340 are done, process_next_command is next,        *)
(*   "exec"   a command was popped, execute_command is (re)tried,          *)
(*   "done"   line 344 is reached, the call is about to return None.       *)
(* What a call observed (the answers of its collaborators, the calls it    *)
(* made) stays readable until it returns, except the event and the locals  *)
(* of the event block, which end with that block.                          *)
(***************************************************************************)
EXTENDS Integers, Sequences, FiniteSets, TLC

\* ------------------------------------------------------------- bounds
NumSigners == 3
NumMessages == 2
MaxPending == 2
MaxBatch == 2
MaxOutbound == 1
MaxResults == 1
MaxFails == 2
MaxAttempts == 4

\* ------------------------------------------------------- data model
\* Optional values: <<>> is None, <<x>> is Some(x).
None == <<>>

Some(x) == <<x>>

\* RunLoopCommand (lines 22-34): Dkg, or Sign with its payload.
DkgCommand == <<"Dkg">>

SignCommand(m) == <<"Sign", m>>

RunLoopCommand == {DkgCommand} \cup {SignCommand(m) : m \in 1..NumMessages}

\* State (lines 38-45).
State == {"Idle", "Dkg", "Sign"}

\* The participant registry, PublicKeys.signers: signer id -> public key.
SignerIds == 0..(NumSigners - 1)

PublicKey(i) == <<"pk", i>>

public_keys == [i \in SignerIds |-> PublicKey(i)]

\* A signature is named by the key pair that made it; key pair NumSigners
\* belongs to nobody in the registry, so its signatures verify under no
\* registered key (an invalid or missing signature).
KeyPairs == 0..NumSigners

\* Signable::verify(sig, public_key) of the wsts messages.
Verify(sig, public_key) == public_key = PublicKey(sig)

\* wsts::net::Message kinds, as matched in verify_msg (lines 364-456).
CoordinatorKinds == {"DkgBegin", "DkgPrivateBegin", "NonceRequest", "SignatureShareRequest"}

ParticipantKinds == {"DkgEnd", "DkgPublicShares", "DkgPrivateShares", "NonceResponse", "SignatureShareResponse"}

\* The sender id a participant-issued message claims; NumSigners is an id
\* the registry does not know.  Coordinator-issued kinds carry no sender id.
ClaimedIds == 0..NumSigners

NoSender == -1

Packets ==
    [kind : CoordinatorKinds, signer_id : {NoSender}, sig : KeyPairs]
    \cup [kind : ParticipantKinds, signer_id : ClaimedIds, sig : KeyPairs]

\* A chunk of StackerDBChunksEvent.modified_slots: bytes that are the
\* serialization of a Packet, or bytes that are not.
Junk == <<"junk">>

Serialize(p) == <<"packet", p.kind, p.signer_id, p.sig>>

\* bincode::deserialize::<Packet>(&chunk.data).ok()  (line 191)
Deserialize(chunk) ==
    IF chunk[1] = "packet"
    THEN Some([kind |-> chunk[2], signer_id |-> chunk[3], sig |-> chunk[4]])
    ELSE None

AllChunks == {Junk} \cup {Serialize(p) : p \in Packets}

SeqsUpTo(S, n) == UNION {[1..k -> S] : k \in 0..n}

\* ---------------------------------------------------- pure functions
\* An election of the signer with the highest id.
calculate_coordinator_last(pks) ==
    LET last == CHOOSE i \in DOMAIN pks : \A j \in DOMAIN pks : j <= i
    IN  <<last, pks[last]>>

\* calculate_coordinator (lines 349-354): (coordinator id, its key).
calculate_coordinator(pks) == <<0, pks[0]>>

\* verify_msg with every kind checked against the coordinator's key.
verify_msg_coordinator_key(m, pks, coordinator_public_key) ==
    Verify(m.sig, coordinator_public_key)

\* verify_msg (lines 359-458), one arm per match arm of the source.
verify_msg(m, pks, coordinator_public_key) ==
    CASE m.kind \in {"DkgBegin", "DkgPrivateBegin"} ->
            Verify(m.sig, coordinator_public_key)
      [] m.kind = "DkgEnd" ->
            IF m.signer_id \in DOMAIN pks
            THEN Verify(m.sig, pks[m.signer_id]) ELSE FALSE
      [] m.kind = "DkgPublicShares" ->
            IF m.signer_id \in DOMAIN pks
            THEN Verify(m.sig, pks[m.signer_id]) ELSE FALSE
      [] m.kind = "DkgPrivateShares" ->
            IF m.signer_id \in DOMAIN pks
            THEN Verify(m.sig, pks[m.signer_id]) ELSE FALSE
      [] m.kind = "NonceRequest" ->
            Verify(m.sig, coordinator_public_key)
      [] m.kind = "NonceResponse" ->
            IF m.signer_id \in DOMAIN pks
            THEN Verify(m.sig, pks[m.signer_id]) ELSE FALSE
      [] m.kind = "SignatureShareRequest" ->
            Verify(m.sig, coordinator_public_key)
      [] m.kind = "SignatureShareResponse" ->
            IF m.signer_id \in DOMAIN pks
            THEN Verify(m.sig, pks[m.signer_id]) ELSE FALSE

\* The filter_map closure without the call of verify_msg.
filter_chunk_unverified(chunk, pks, coordinator_public_key) ==
    Deserialize(chunk)

\* The filter_map closure of process_event (lines 190-201) on one chunk:
\* Some(message) when it decodes and verifies, None otherwise.
filter_chunk(chunk, pks, coordinator_public_key) ==
    LET message == Deserialize(chunk) IN
    IF message = None THEN None
    ELSE IF verify_msg(message[1], pks, coordinator_public_key)
         THEN message
         ELSE None

\* inbound_messages that gives up on the batch at its first rejected chunk.
RECURSIVE inbound_messages_until_reject(_, _, _)
inbound_messages_until_reject(slots, pks, coordinator_public_key) ==
    IF slots = <<>> THEN <<>>
    ELSE IF filter_chunk(Head(slots), pks, coordinator_public_key) = None
         THEN <<>>
         ELSE filter_chunk(Head(slots), pks, coordinator_public_key)
              \o inbound_messages_until_reject(Tail(slots), pks, coordinator_public_key)

\* inbound_messages of process_event (lines 187-202): filter_map over the
\* modified slots in iteration order, collected.
RECURSIVE inbound_messages(_, _, _)
inbound_messages(slots, pks, coordinator_public_key) ==
    IF slots = <<>> THEN <<>>
    ELSE filter_chunk(Head(slots), pks, coordinator_public_key)
         \o inbound_messages(Tail(slots), pks, coordinator_public_key)

\* The queue's front, commands.front() (line 102).
front(q) == IF q = <<>> THEN None ELSE Some(Head(q))

\* ------------------------------------------------------ collaborators
\* The group public key a DKG round agrees on.
GroupKey == "group_key"

\* Result<T, E>: Ok(v) or Err; Result::ok() (line 78) maps it to an Option.
Ok(v) == <<"Ok", v>>

Err == <<"Err">>

NotCalled == <<"NotCalled">>

ok(r) == IF r[1] = "Ok" THEN Some(r[2]) ELSE None

is_none(o) == o = None

\* What the chain records: the ratified group key, if any, and this node's
\* vote for a key, if any.  Other nodes vote and the contract may flush
\* votes, so each call of should_run_dkg may find any of these.
Ledgers == [key : {None, Some(GroupKey)}, vote : {None, Some(GroupKey)}]

NoLedger == [key |-> None, vote |-> None]

\* StacksClient::get_aggregate_public_key: Result<Option<key>> (lines 78,
\* 265): the recorded key, or Err when the node cannot be reached.
KeyQueryResults(l) == {Err, Ok(l.key)}

\* StacksClient::get_aggregate_public_key_vote: Result<Option<key>> (line 80).
VoteQueryResults(l) == {Err, Ok(l.vote)}

\* StacksClient::cast_aggregate_public_key_vote: Result<()> (line 88).
CastResults == {Err, Ok(None)}

\* SigningRound::process_inbound_messages(..).unwrap_or_default() (lines
\* 204-207): the number of outbound packets.  The engine answers packets, so
\* it has nothing to say to an empty list; an Err counts as no packets.
signer_outputs(inbound) ==
    IF inbound = <<>> THEN {0} ELSE 0..MaxOutbound

\* Coordinatable::process_inbound_messages(..).unwrap_or_default() (lines
\* 210-212): outbound packets, operation results, and the aggregate key the
\* engine holds afterwards (a finished DKG round may have set it).
coordinator_outputs(inbound, key) ==
    IF inbound = <<>>
    THEN {[messages |-> 0, results |-> 0, key |-> key]}
    ELSE {[messages |-> n, results |-> 0, key |-> key] : n \in 0..MaxOutbound}
         \cup {[messages |-> n, results |-> r, key |-> k] :
                 n \in 0..MaxOutbound, r \in 1..MaxResults,
                 k \in {key, Some(GroupKey)}}

\* process_event taking the coordinator engine's packets and results on
\* every node, elected or not.
process_event_results_anywhere(slots, sid, pks, key) ==
    LET coordinator == calculate_coordinator(pks)
        inbound == inbound_messages(slots, pks, coordinator[2])
    IN  {[signer_inbound |-> Some(inbound),
          coordinator_inbound |-> IF sid = coordinator[1] THEN Some(inbound) ELSE None,
          outbound |-> so + co.messages,
          results |-> co.results,
          key |-> co.key] :
            so \in signer_outputs(inbound),
            co \in coordinator_outputs(inbound, key)}

\* process_event (lines 179-218): every outcome the call can have, as the
\* lists handed to the two engines and what they gave back.
process_event(slots, sid, pks, key) ==
    LET coordinator == calculate_coordinator(pks)
        inbound == inbound_messages(slots, pks, coordinator[2])
    IN  IF sid = coordinator[1]
        THEN {[signer_inbound |-> Some(inbound),
               coordinator_inbound |-> Some(inbound),
               outbound |-> so + co.messages,
               results |-> co.results,
               key |-> co.key] :
                 so \in signer_outputs(inbound),
                 co \in coordinator_outputs(inbound, key)}
        ELSE {[signer_inbound |-> Some(inbound),
               coordinator_inbound |-> None,
               outbound |-> so,
               results |-> 0,
               key |-> key] : so \in signer_outputs(inbound)}

\* should_run_dkg that does not look at the front of the queue.
should_run_dkg_ignores_front(st, key, sid, pks, q) ==
    IF st # "Idle" THEN FALSE
    ELSE IF key # None THEN FALSE
    ELSE calculate_coordinator(pks)[1] = sid

\* should_run_dkg's return value (lines 67-104).
should_run_dkg(st, key, sid, pks, q) ==
    IF st # "Idle" THEN FALSE
    ELSE IF key # None THEN FALSE
    ELSE calculate_coordinator(pks)[1] = sid /\ front(q) # Some(DkgCommand)

\* An event step that ends the round whether or not there are results.
state_after_event_always_idle(st, results) == "Idle"

\* An event step that forgets to end the round.
state_after_event_keeps_state(st, results) == st

\* run_one_pass, lines 322-325: any operation result ends the round.
state_after_event(st, results) == IF results > 0 THEN "Idle" ELSE st

\* can_pop without the match on the state.
can_pop_any_state(st, q) == q # <<>>

\* process_next_command's guard (lines 160-162): Idle, and a command to pop.
can_pop(st, q) == st = "Idle" /\ q # <<>>

\* The State a started command leaves the run loop in (lines 118, 144).
running_state(c) == IF c = DkgCommand THEN "Dkg" ELSE "Sign"

\* ------------------------------------------------------------- state
VARIABLES
    state,                  \* RunLoop.state
    commands,               \* RunLoop.commands
    aggregate_public_key,   \* coordinator.get_aggregate_public_key()
    signer_id,              \* signing_round.signer_id
    registry,               \* signing_round.public_keys.signers
    pc,                     \* position inside run_one_pass
    cmd,                    \* run_one_pass's cmd argument
    event,                  \* run_one_pass's event argument (its modified_slots)
    signer_inbound,         \* the list handed to the participant engine, if called
    coordinator_inbound,    \* the list handed to the coordinator engine, if called
    outbound_messages,      \* number of packets process_event returned
    operation_results,      \* number of results process_event returned
    res_sends,              \* res.send calls of this call: the number of results each carried
    res_send_result,        \* what res.send returned, if called
    send_calls,             \* send_message calls of the loop of lines 311-320
    send_errs,              \* how many of them returned Err
    entry_state,            \* RunLoop.state when run_one_pass was called
    entry_commands,         \* RunLoop.commands when run_one_pass was called
    ledger,                 \* what the chain records while should_run_dkg runs
    dkg_needed,             \* what should_run_dkg returned, once it has
    key_query,              \* answer to get_aggregate_public_key, if asked
    vote_query,             \* answer to get_aggregate_public_key_vote, if asked
    cast_result,            \* answer to cast_aggregate_public_key_vote, if called
    command,                \* the command process_next_command popped
    popped_from,            \* the queue it was popped from
    start_calls,            \* coordinator start_* calls of this call
    start_errs,             \* how many of them returned Err
    resets,                 \* coordinator.reset() calls of this call
    start_ack,              \* ack of the send of the round's first message, if sent
    returned,               \* what the last call of run_one_pass returned
    elected,                \* what calculate_coordinator returned to this call, if called
    max_attempts,           \* legacy coordinator: the argument of wait_for_dkg_end
    attempts,               \* legacy coordinator: wait_for_dkg_end's attempts
    received,               \* legacy coordinator: the kinds of the messages received so far
    dkg_end_result          \* legacy coordinator: what wait_for_dkg_end returned, once it has

loop_vars == <<state, commands, aggregate_public_key, signer_id, registry>>

event_vars == <<cmd, event, signer_inbound, coordinator_inbound, outbound_messages, operation_results, res_sends, res_send_result, send_calls, send_errs, entry_state, entry_commands>>

check_vars == <<ledger, dkg_needed, key_query, vote_query, cast_result>>

exec_vars == <<command, popped_from, start_calls, start_errs, resets, start_ack>>

legacy_vars == <<max_attempts, attempts, received, dkg_end_result>>

vars == <<loop_vars, pc, event_vars, check_vars, exec_vars, returned, elected, legacy_vars>>

\* The events a call of run_one_pass is given: batches over bytes that do
\* not decode, a DkgBegin signed by the coordinator, and a NonceResponse of
\* signer 1 signed by signer 1 or, wrongly, by the coordinator.
TickChunks ==
    {Junk,
     Serialize([kind |-> "DkgBegin", signer_id |-> NoSender, sig |-> 0]),
     Serialize([kind |-> "NonceResponse", signer_id |-> 1, sig |-> 1]),
     Serialize([kind |-> "NonceResponse", signer_id |-> 1, sig |-> 0])}

\* The commands an operator can give.
Commands == {None} \cup {Some(c) : c \in RunLoopCommand}

SignCommands == {None} \cup {Some(SignCommand(m)) : m \in 1..NumMessages}

\* The nodes followed: the elected coordinator and one other participant.
\* The run loop reads signer_id only to compare it with the coordinator's
\* id (lines 101, 209), so every other participant behaves as signer 1.
NodeIds == {calculate_coordinator(public_keys)[1], 1}

\* RunLoop::from (lines 221-284): the key the ledger reports, if any, is
\* given to the coordinator engine; the queue is empty and the state Idle.
Start(pks) ==
    /\ state = "Idle"
    /\ commands = <<>>
    /\ aggregate_public_key \in {None, Some(GroupKey)}
    /\ signer_id \in NodeIds \cap DOMAIN pks
    /\ registry = pks
    /\ pc = "tick"
    /\ cmd = None
    /\ event = None
    /\ signer_inbound = None
    /\ coordinator_inbound = None
    /\ outbound_messages = 0
    /\ operation_results = 0
    /\ res_sends = <<>>
    /\ res_send_result = NotCalled
    /\ send_calls = 0
    /\ send_errs = 0
    /\ entry_state = "Idle"
    /\ entry_commands = <<>>
    /\ ledger = NoLedger
    /\ dkg_needed = None
    /\ key_query = NotCalled
    /\ vote_query = NotCalled
    /\ cast_result = NotCalled
    /\ command = None
    /\ popped_from = <<>>
    /\ start_calls = 0
    /\ start_errs = 0
    /\ resets = 0
    /\ start_ack = NotCalled
    /\ returned = NotCalled
    /\ elected = NotCalled

\* The run loop does not call the legacy coordinator.
NoLegacyCall ==
    /\ max_attempts = 0
    /\ attempts = 0
    /\ received = <<>>
    /\ dkg_end_result = NotCalled

\* A node of the group whose registry is public_keys.
Init == Start(public_keys) /\ NoLegacyCall

\* run_one_pass returns None (line 344): the locals of the call are gone.
return_none ==
    /\ pc = "done"
    /\ pc' = "tick"
    /\ returned' = None
    /\ elected' = NotCalled
    /\ operation_results' = 0
    /\ res_sends' = <<>>
    /\ entry_state' = state
    /\ entry_commands' = commands
    /\ ledger' = NoLedger
    /\ dkg_needed' = None
    /\ key_query' = NotCalled
    /\ vote_query' = NotCalled
    /\ cast_result' = NotCalled
    /\ command' = None
    /\ popped_from' = <<>>
    /\ start_calls' = 0
    /\ start_errs' = 0
    /\ resets' = 0
    /\ start_ack' = NotCalled
    /\ cmd' = None
    /\ UNCHANGED <<loop_vars, event, signer_inbound, coordinator_inbound, outbound_messages, res_send_result, send_calls, send_errs, legacy_vars>>

\* The command that arrived kept off the queue.
enqueue_unseen(q, c) == q

\* run_one_pass, lines 301-303: push_back the command that arrived.
enqueue(q, c) == IF c = None THEN q ELSE Append(q, c[1])

\* run_one_pass, lines 301-333, called without an event.
run_one_pass_no_event(c) ==
    /\ pc = "tick"
    /\ c # None => Len(commands) < MaxPending
    /\ cmd' = c
    /\ event' = None
    /\ commands' = enqueue(commands, c)
    /\ signer_inbound' = None
    /\ coordinator_inbound' = None
    /\ outbound_messages' = 0
    /\ operation_results' = 0
    /\ res_sends' = <<>>
    /\ res_send_result' = NotCalled
    /\ send_calls' = 0
    /\ send_errs' = 0
    /\ entry_state' = state
    /\ entry_commands' = commands
    /\ pc' = "check"
    /\ UNCHANGED <<state, aggregate_public_key, signer_id, registry, check_vars, exec_vars, returned, elected, legacy_vars>>

\* The send loop ending at the first send that fails.
send_loop_stops(n, failing) ==
    IF failing = {}
    THEN [calls |-> n, errs |-> 0]
    ELSE [calls |-> CHOOSE i \in failing : \A j \in failing : i <= j, errs |-> 1]

\* run_one_pass, lines 311-320: one send_message per packet process_event
\* returned; a send that fails (those of `failing`) is logged and the loop
\* goes on.
send_loop(n, failing) == [calls |-> n, errs |-> Cardinality(failing)]

\* A res.send in every call with an event, also of an empty result list.
result_sends_always(results) == <<results>>

\* run_one_pass, lines 321-332: one res.send of the whole result list when
\* it is not empty.
result_sends(results) == IF results > 0 THEN <<results>> ELSE <<>>

\* What a send can return: Ok, or Err (the stacker-db refuses the message,
\* the receiver of the result channel is gone).
SendResults == {Ok(None), Err}

\* run_one_pass, lines 301-306, called with an event: the push_back of the
\* command, and process_event as far as the calls of the engines (lines
\* 184-215) with the list of the messages that passed the filter.
run_one_pass_event(c, slots) ==
    /\ pc = "tick"
    /\ c # None => Len(commands) < MaxPending
    /\ cmd' = c
    /\ event' = Some(slots)
    /\ commands' = enqueue(commands, c)
    /\ elected' = calculate_coordinator(registry)
    /\ LET inbound == inbound_messages(slots, registry, elected'[2])
       IN  /\ signer_inbound' = Some(inbound)
           /\ coordinator_inbound' = IF signer_id = elected'[1] THEN Some(inbound) ELSE None
    /\ outbound_messages' = 0
    /\ operation_results' = 0
    /\ res_sends' = <<>>
    /\ res_send_result' = NotCalled
    /\ send_calls' = 0
    /\ send_errs' = 0
    /\ entry_state' = state
    /\ entry_commands' = commands
    /\ pc' = "event"
    /\ UNCHANGED <<state, aggregate_public_key, signer_id, registry, check_vars, exec_vars, returned, legacy_vars>>

\* process_event, lines 204-217: the engines answer and process_event
\* returns their packets and results.  The lists it built for the engines
\* were its locals, and run_one_pass does not read the event after line 306.
process_event_returns ==
    /\ pc = "event"
    /\ \E out \in process_event(event[1], signer_id, registry, aggregate_public_key) :
          /\ out.signer_inbound = signer_inbound
          /\ out.coordinator_inbound = coordinator_inbound
          /\ outbound_messages' = out.outbound
          /\ operation_results' = out.results
          /\ aggregate_public_key' = out.key
    /\ event' = None
    /\ signer_inbound' = None
    /\ coordinator_inbound' = None
    /\ pc' = "send"
    /\ UNCHANGED <<state, commands, signer_id, registry, cmd, res_sends, res_send_result, send_calls, send_errs, entry_state, entry_commands, check_vars, exec_vars, returned, elected, legacy_vars>>

\* run_one_pass, lines 307-320: the sends of the packets process_event
\* returned.
send_outbound_messages ==
    /\ pc = "send"
    /\ \E failing \in SUBSET (1..outbound_messages) :
          LET sent == send_loop(outbound_messages, failing)
          IN  /\ send_calls' = sent.calls
              /\ send_errs' = sent.errs
    /\ pc' = "results"
    /\ UNCHANGED <<loop_vars, cmd, event, signer_inbound, coordinator_inbound, outbound_messages, operation_results, res_sends, res_send_result, entry_state, entry_commands, check_vars, exec_vars, returned, elected, legacy_vars>>

\* run_one_pass, lines 321-332: when process_event returned results, the
\* state becomes Idle and the results are sent over the result channel.
emit_results ==
    /\ pc = "results"
    /\ state' = state_after_event(state, operation_results)
    /\ res_sends' = result_sends(operation_results)
    /\ IF res_sends' # <<>>
       THEN \E r \in SendResults : res_send_result' = r
       ELSE res_send_result' = NotCalled
    /\ pc' = "check"
    /\ UNCHANGED <<commands, aggregate_public_key, signer_id, registry, cmd, event, signer_inbound, coordinator_inbound, outbound_messages, operation_results, send_calls, send_errs, entry_state, entry_commands, check_vars, exec_vars, returned, elected, legacy_vars>>

\* The vote liaison casting whenever the vote lookup succeeds.
vote_liaison_recasts(l) ==
    IF state = "Idle" /\ aggregate_public_key # None
    THEN \E kq \in KeyQueryResults(l) :
            /\ key_query' = kq
            /\ IF is_none(ok(kq))
               THEN \E vq \in VoteQueryResults(l) :
                      /\ vote_query' = vq
                      /\ IF vq # Err
                         THEN \E cr \in CastResults : cast_result' = cr
                         ELSE cast_result' = NotCalled
               ELSE /\ vote_query' = NotCalled
                    /\ cast_result' = NotCalled
    ELSE /\ key_query' = NotCalled
         /\ vote_query' = NotCalled
         /\ cast_result' = NotCalled

\* should_run_dkg's calls to the stacks client (lines 74-98): with a key in
\* the coordinator engine, the ledger is asked for the recorded key; only if
\* .ok() of that answer is None is the vote looked up, and cast if Ok(None).
vote_liaison(l) ==
    IF state = "Idle" /\ aggregate_public_key # None
    THEN \E kq \in KeyQueryResults(l) :
            /\ key_query' = kq
            /\ IF is_none(ok(kq))
               THEN \E vq \in VoteQueryResults(l) :
                      /\ vote_query' = vq
                      /\ IF vq = Ok(None)
                         THEN \E cr \in CastResults : cast_result' = cr
                         ELSE cast_result' = NotCalled
               ELSE /\ vote_query' = NotCalled
                    /\ cast_result' = NotCalled
    ELSE /\ key_query' = NotCalled
         /\ vote_query' = NotCalled
         /\ cast_result' = NotCalled

\* The Dkg command put where the comment of lines 337-338 says: the front.
push_dkg_front(q) == <<DkgCommand>> \o q

\* run_one_pass, line 339: commands.push_back(RunLoopCommand::Dkg).
push_dkg(q) == Append(q, DkgCommand)

\* run_one_pass, lines 335-340: should_run_dkg, and the push_back of a Dkg
\* command when it returns true.  The event and what process_event made of
\* it went out of scope at line 333.
check_dkg ==
    /\ pc = "check"
    /\ \E l \in Ledgers :
          /\ ledger' = l
          /\ vote_liaison(l)
    /\ elected' = IF state = "Idle" THEN calculate_coordinator(registry) ELSE elected
    /\ LET needed == should_run_dkg(state, aggregate_public_key, signer_id, registry, commands)
       IN  /\ dkg_needed' = Some(needed)
           /\ commands' = IF needed THEN push_dkg(commands) ELSE commands
    /\ pc' = "next"
    /\ event' = None
    /\ signer_inbound' = None
    /\ coordinator_inbound' = None
    /\ outbound_messages' = 0
    /\ res_send_result' = NotCalled
    /\ send_calls' = 0
    /\ send_errs' = 0
    /\ UNCHANGED <<state, aggregate_public_key, signer_id, registry, cmd, operation_results, res_sends, entry_state, entry_commands, exec_vars, returned, legacy_vars>>

\* process_next_command (lines 159-176): in Idle, pop the front command and
\* enter the retry loop; otherwise, or with an empty queue, return.
process_next_command ==
    /\ pc = "next"
    /\ IF can_pop(state, commands)
       THEN /\ command' = Some(Head(commands))
            /\ popped_from' = commands
            /\ commands' = Tail(commands)
            /\ pc' = "exec"
       ELSE /\ pc' = "done"
            /\ UNCHANGED <<commands, command, popped_from>>
    /\ UNCHANGED <<state, aggregate_public_key, signer_id, registry, event_vars, check_vars, start_calls, start_errs, resets, start_ack, returned, elected, legacy_vars>>

\* execute_command, the Ok arm (lines 113-120, 139-146): the start message
\* is sent, the state is set, true is returned and the loop of line 163 ends.
execute_command_ok ==
    /\ pc = "exec"
    /\ start_calls' = start_calls + 1
    /\ \E ack \in SendResults : start_ack' = ack
    /\ state' = running_state(command[1])
    /\ pc' = "done"
    /\ UNCHANGED <<commands, aggregate_public_key, signer_id, registry, event_vars, check_vars, command, popped_from, start_errs, resets, returned, elected, legacy_vars>>

\* execute_command's Err arm putting the failed command back on the queue.
execute_command_err_requeues ==
    /\ pc = "exec"
    /\ start_errs < MaxFails
    /\ start_calls' = start_calls + 1
    /\ start_errs' = start_errs + 1
    /\ resets' = resets + 1
    /\ commands' = Append(commands, command[1])
    /\ UNCHANGED <<state, aggregate_public_key, signer_id, registry, pc, event_vars, check_vars, command, popped_from, start_ack, returned, elected, legacy_vars>>

\* execute_command's Err arm without the coordinator.reset().
execute_command_err_no_reset ==
    /\ pc = "exec"
    /\ start_errs < MaxFails
    /\ start_calls' = start_calls + 1
    /\ start_errs' = start_errs + 1
    /\ UNCHANGED <<loop_vars, pc, event_vars, check_vars, command, popped_from, resets, start_ack, returned, elected, legacy_vars>>

\* execute_command's Err arm followed by a return instead of a new attempt.
execute_command_err_gives_up ==
    /\ pc = "exec"
    /\ start_errs < MaxFails
    /\ start_calls' = start_calls + 1
    /\ start_errs' = start_errs + 1
    /\ resets' = resets + 1
    /\ pc' = "done"
    /\ UNCHANGED <<loop_vars, event_vars, check_vars, command, popped_from, start_ack, returned, elected, legacy_vars>>

\* execute_command, the Err arm (lines 121-126, 147-152): the coordinator is
\* reset, false is returned and the loop of line 163 tries again.
execute_command_err ==
    /\ pc = "exec"
    /\ start_errs < MaxFails
    /\ start_calls' = start_calls + 1
    /\ start_errs' = start_errs + 1
    /\ resets' = resets + 1
    /\ UNCHANGED <<loop_vars, pc, event_vars, check_vars, command, popped_from, start_ack, returned, elected, legacy_vars>>

Next ==
    \/ \E c \in Commands : run_one_pass_no_event(c)
    \/ \E c \in Commands :
          \E slots \in SeqsUpTo(TickChunks, MaxBatch) : run_one_pass_event(c, slots)
    \/ process_event_returns
    \/ send_outbound_messages
    \/ emit_results
    \/ check_dkg
    \/ process_next_command
    \/ execute_command_ok
    \/ execute_command_err
    \/ return_none

Spec == Init /\ [][Next]_vars

\* The same run loop, given no operator command and events of one chunk
\* each, over every chunk there is.
NextVerify ==
    \/ \E chunk \in AllChunks : run_one_pass_event(None, <<chunk>>)
    \/ process_event_returns
    \/ send_outbound_messages
    \/ emit_results
    \/ check_dkg
    \/ process_next_command
    \/ execute_command_ok
    \/ execute_command_err
    \/ return_none

SpecVerify == Init /\ [][NextVerify]_vars

\* The same run loop with operators that give Sign commands only.
NextSignOnly ==
    \/ \E c \in SignCommands : run_one_pass_no_event(c)
    \/ \E c \in SignCommands :
          \E slots \in SeqsUpTo(TickChunks, MaxBatch) : run_one_pass_event(c, slots)
    \/ process_event_returns
    \/ send_outbound_messages
    \/ emit_results
    \/ check_dkg
    \/ process_next_command
    \/ execute_command_ok
    \/ execute_command_err
    \/ return_none

SpecSignOnly == Init /\ [][NextSignOnly]_vars

\* The registries the election is checked over: signers 0..n, holding the
\* keys of public_keys or those keys moved round by one signer, so that
\* signer 0's key is not the same in all of them.
Registries ==
    {[i \in 0..n |-> PublicKey((i + k) % NumSigners)] : n \in SignerIds, k \in {0, 1}}

\* A node of any of these groups.
InitElection == (\E pks \in Registries : Start(pks)) /\ NoLegacyCall

\* The same run loop given events of one chunk each.
NextSingle ==
    \/ \E c \in Commands : run_one_pass_no_event(c)
    \/ \E c \in Commands :
          \E chunk \in TickChunks : run_one_pass_event(c, <<chunk>>)
    \/ process_event_returns
    \/ send_outbound_messages
    \/ emit_results
    \/ check_dkg
    \/ process_next_command
    \/ execute_command_ok
    \/ execute_command_err
    \/ return_none

SpecElection == InitElection /\ [][NextSingle]_vars

\* run_one_pass is sequential code: once called, it goes on from each step
\* to the next.  Nothing forces a start attempt to succeed, and nothing
\* forces the caller to call again: a start that keeps failing beyond
\* MaxFails attempts is the call staying in the retry loop for ever.
Fairness ==
    /\ WF_vars(process_event_returns)
    /\ WF_vars(send_outbound_messages)
    /\ WF_vars(emit_results)
    /\ WF_vars(check_dkg)
    /\ WF_vars(process_next_command)
    /\ WF_vars(return_none)

SpecDrain == Init /\ [][NextSingle]_vars /\ Fairness

\* --------------------------------------------- the legacy coordinator
\* testnet/stacks-signer/src/bin/coordinator.rs.  The kinds of message it
\* can be sent: DkgEnd (line 88) and two kinds that are not DkgEnd.
LegacyMessageTypes == {"DkgBegin", "DkgEnd", "DkgPublicShare"}

\* Error (lines 115-125), as wait_for_dkg_end returns it.
Timeout == <<"Err", "Timeout">>

MaxAttemptsReached == <<"Err", "MaxAttemptsReached">>

\* wait_for_dkg_end has been called and has not returned.
Waiting == <<"Waiting">>

\* The match of wait_for_dkg_end with its first two arms in the other order.
dkg_end_match_end_first(n, msg) ==
    IF msg = "DkgEnd" THEN [result |-> Ok(None), attempts |-> n]
    ELSE IF n = 0 THEN [result |-> MaxAttemptsReached, attempts |-> n]
    ELSE [result |-> Waiting, attempts |-> n - 1]

\* wait_for_dkg_end, the match of lines 86-90 on (attempts, msg): what is
\* returned, if anything, and the attempts left.
dkg_end_match(n, msg) ==
    IF n = 0 THEN [result |-> MaxAttemptsReached, attempts |-> n]
    ELSE IF msg = "DkgEnd" THEN [result |-> Ok(None), attempts |-> n]
    ELSE [result |-> Waiting, attempts |-> n - 1]

\* A call wait_for_dkg_end(n) (line 84), by a process that has no run loop.
InitLegacy ==
    /\ Start(public_keys)
    /\ signer_id = 0
    /\ aggregate_public_key = None
    /\ max_attempts \in 0..MaxAttempts
    /\ attempts = max_attempts
    /\ received = <<>>
    /\ dkg_end_result = Waiting

\* One turn of the loop of lines 85-91 in which wait_for_next_message
\* returned a message.
wait_for_dkg_end_message(msg) ==
    /\ dkg_end_result = Waiting
    /\ received' = Append(received, msg)
    /\ LET arm == dkg_end_match(attempts, msg)
       IN  /\ dkg_end_result' = arm.result
           /\ attempts' = arm.attempts
    /\ UNCHANGED <<loop_vars, pc, event_vars, check_vars, exec_vars, returned, elected, max_attempts>>

\* One turn in which wait_for_next_message gave up (line 112): the `?` of
\* line 86 returns its error.
wait_for_dkg_end_timeout ==
    /\ dkg_end_result = Waiting
    /\ dkg_end_result' = Timeout
    /\ UNCHANGED <<loop_vars, pc, event_vars, check_vars, exec_vars, returned, elected, max_attempts, attempts, received>>

NextLegacy ==
    \/ \E msg \in LegacyMessageTypes : wait_for_dkg_end_message(msg)
    \/ wait_for_dkg_end_timeout

SpecLegacy == InitLegacy /\ [][NextLegacy]_vars

\* ------------------------------------------------------------ claims
IsPrefix(p, q) == Len(p) <= Len(q) /\ SubSeq(q, 1, Len(p)) = p

\* C1: the state is one of Idle, Dkg, Sign, and in no step taken while the
\* state is Dkg or Sign is a command dequeued or a start operation invoked:
\* the queue only grows at its tail, so what was queued stays in place.
C1_OnlyIdleStarts ==
    [][/\ state \in State
       /\ state' \in State
       /\ state # "Idle" =>
            /\ IsPrefix(commands, commands')
            /\ start_calls' <= start_calls
            /\ pc' # "exec"]_vars

\* C1 witness: a Sign command given while a DKG round runs is still queued
\* when the drain step of that call has been passed.
C1_Witness ==
    /\ pc = "done"
    /\ state = "Dkg"
    /\ entry_state = "Dkg"
    /\ command = None
    /\ commands # <<>>
    /\ Head(commands)[1] = "Sign"

\* The entries of a batch that decode and are authentic, by the rule of the
\* message authenticator: coordinator-issued kinds under the coordinator's
\* key, participant-issued kinds under the registered key of the claimed id.
Authentic(m) ==
    \/ /\ m.kind \in CoordinatorKinds
       /\ Verify(m.sig, public_keys[0])
    \/ /\ m.kind \in ParticipantKinds
       /\ m.signer_id \in SignerIds
       /\ Verify(m.sig, public_keys[m.signer_id])

Accepted(chunk) == chunk[1] = "packet" /\ Authentic(Deserialize(chunk)[1])

AcceptedPackets(slots) ==
    LET kept == SelectSeq(slots, Accepted)
    IN  [i \in 1..Len(kept) |-> Deserialize(kept[i])[1]]

\* C2: when process_event has run on a batch, the participant engine was
\* handed exactly the decodable, authentic entries of the batch in batch
\* order, and the coordinator engine was handed that same list on the
\* elected coordinator and nothing on any other node.
C2_EnginesGetAuthenticSubsequence ==
    (pc = "event" /\ event # None) =>
        /\ signer_inbound = Some(AcceptedPackets(event[1]))
        /\ coordinator_inbound =
              IF signer_id = 0 THEN Some(AcceptedPackets(event[1])) ELSE None

\* C2 witness: on the coordinator, a batch whose first entry is rejected and
\* whose second is accepted; both engines got the second entry alone.
C2_Witness ==
    /\ pc = "event"
    /\ event # None
    /\ signer_id = 0
    /\ Len(event[1]) = 2
    /\ ~Accepted(event[1][1])
    /\ event[1][1] # Junk
    /\ Accepted(event[1][2])
    /\ signer_inbound = Some(<<Deserialize(event[1][2])[1]>>)
    /\ coordinator_inbound = signer_inbound

\* C3: for every message kind, claimed sender and signing key, the message
\* of a one-entry batch reaches the participant engine iff it is authentic
\* by the rule above; otherwise the engine is handed the empty list.
C3_VerifyMsgMatchesReference ==
    (pc = "event" /\ event # None /\ event[1][1] # Junk) =>
        LET m == Deserialize(event[1][1])[1]
        IN  /\ Authentic(m) => signer_inbound = Some(<<m>>)
            /\ ~Authentic(m) => signer_inbound = Some(<<>>)

\* C3 witness: a participant-kind message claiming sender 1 but signed by
\* the coordinator's key has been rejected.
C3_Witness ==
    /\ pc = "event"
    /\ event = Some(<<Serialize([kind |-> "DkgPrivateShares", signer_id |-> 1, sig |-> 0])>>)
    /\ signer_inbound = Some(<<>>)

\* C4: while the start of the popped command keeps failing the state stays
\* Idle, and every failure so far was followed by one reset; when the call
\* is over after k failures, the start was called k+1 times and reset k
\* times, the state is the one of the popped command, and the queue is the
\* queue it was popped from less its front.
C4_RetryUntilStarted ==
    /\ pc = "exec" =>
          /\ state = "Idle"
          /\ start_calls = start_errs
          /\ resets = start_errs
          /\ command = Some(Head(popped_from))
          /\ commands = Tail(popped_from)
    /\ (pc = "done" /\ command # None) =>
          /\ start_calls = start_errs + 1
          /\ resets = start_errs
          /\ state = IF command[1] = DkgCommand THEN "Dkg" ELSE "Sign"
          /\ command = Some(Head(popped_from))
          /\ commands = Tail(popped_from)
    /\ (pc = "done" /\ command = None) =>
          /\ start_calls = 0
          /\ resets = 0

\* C4 witness: a Sign command started at the third attempt, with another
\* command still queued behind it.
C4_Witness ==
    /\ pc = "done"
    /\ command # None
    /\ command[1][1] = "Sign"
    /\ start_errs = 2
    /\ start_calls = 3
    /\ resets = 2
    /\ state = "Sign"
    /\ commands # <<>>

\* C5, as claimed: at every start attempt the command being attempted is
\* still the front element of the queue.
C5_AttemptedCommandIsQueueFront ==
    pc = "exec" => front(commands) = command

\* C5, amended: the command leaves the queue in the pop that precedes its
\* first attempt; through every attempt and retry it is held outside the
\* queue, unchanged, and the queue is not touched; the retry loop is left
\* only by a successful start of that command.
C5_PoppedThenRetried ==
    [][/\ Len(commands') < Len(commands) =>
            /\ pc = "next"
            /\ pc' = "exec"
            /\ start_calls = 0
            /\ command' = Some(Head(commands))
            /\ commands' = Tail(commands)
       /\ pc = "exec" =>
            /\ command' = command
            /\ commands' = commands
            /\ start_calls' = start_calls + 1
            /\ \/ pc' = "exec" /\ state' = "Idle"
               \/ pc' = "done" /\ state' # "Idle"]_vars

\* C5 witness: a retry is under way, the command is out of the queue and
\* another command waits behind it.
C5_Witness ==
    /\ pc = "exec"
    /\ start_errs > 0
    /\ command # None
    /\ commands # <<>>
    /\ front(commands) # command

\* C6: the state changes only from Idle to Dkg by a successful start of a
\* Dkg command, from Idle to Sign by a successful start of a Sign command,
\* and from Dkg or Sign to Idle by the event step of a call whose event
\* yielded at least one result.
C6_StateTransitions ==
    [][state' # state =>
        \/ /\ state = "Idle"
           /\ state' = "Dkg"
           /\ pc = "exec"
           /\ command = Some(DkgCommand)
           /\ start_calls' = start_calls + 1
           /\ start_errs' = start_errs
        \/ /\ state = "Idle"
           /\ state' = "Sign"
           /\ pc = "exec"
           /\ command # None
           /\ command[1][1] = "Sign"
           /\ start_calls' = start_calls + 1
           /\ start_errs' = start_errs
        \/ /\ state \in {"Dkg", "Sign"}
           /\ state' = "Idle"
           /\ pc = "results"
           /\ operation_results > 0]_vars

\* C6 witness: a call entered in Dkg whose event yielded a result is Idle.
C6_Witness ==
    /\ pc = "check"
    /\ entry_state = "Dkg"
    /\ state = "Idle"
    /\ operation_results > 0

\* C7: in a call whose event yielded a result the state is Idle when the
\* DKG-requirement check and the drain step are reached; at the end of the
\* call either the front command of the queue was popped and started, or
\* the queue is empty, no Dkg was self-enqueued and the state is Idle, and
\* then it is Idle when the next call starts.
C7_IdleBeforeCheckAndDrain ==
    /\ [](operation_results > 0 =>
            /\ pc \in {"check", "next"} => state = "Idle"
            /\ pc \in {"exec", "done"} /\ command # None =>
                  /\ popped_from # <<>>
                  /\ command = Some(Head(popped_from))
            /\ pc = "done" /\ command # None =>
                  /\ start_calls >= 1
                  /\ state # "Idle"
            /\ pc = "done" /\ command = None =>
                  /\ commands = <<>>
                  /\ dkg_needed = Some(FALSE)
                  /\ state = "Idle")
    /\ [][(operation_results > 0 /\ pc = "next" /\ commands # <<>>) =>
            (pc' = "exec" /\ command' = Some(Head(commands)))]_vars
    /\ [][(operation_results > 0 /\ pc = "done" /\ command = None) =>
            (pc' = "tick" /\ state' = "Idle")]_vars

\* C7 witness: a call entered while a DKG round ran; its event yielded a
\* result and the queued Sign command was started in the same call.
C7_Witness ==
    /\ pc = "done"
    /\ operation_results > 0
    /\ entry_state = "Dkg"
    /\ state = "Sign"
    /\ start_calls >= 1

\* The four conditions of the DKG-requirement check, on the state in which
\* the check runs.
DkgRequired ==
    /\ state = "Idle"
    /\ aggregate_public_key = None
    /\ signer_id = 0
    /\ (commands = <<>> \/ Head(commands) # DkgCommand)

DkgCount(q) == Cardinality({i \in DOMAIN q : q[i] = DkgCommand})

C9_AtMostOneDkgQueued ==
    DkgCount(commands) <= 1

\* C10, as claimed: when should_run_dkg has run in Idle with a group key in
\* the coordinator engine, the ledger query succeeded and reported no key,
\* and the chain records no vote of this node, a vote was cast.
C10_VoteCastWhenUnrecorded ==
    (/\ pc = "next"
     /\ state = "Idle"
     /\ aggregate_public_key # None
     /\ key_query = Ok(None)
     /\ ledger.vote = None) => cast_result # NotCalled

\* C11, as claimed: a node that is not the elected coordinator never looks
\* up its recorded vote and never casts a vote.
C11_OnlyCoordinatorVotes ==
    signer_id # calculate_coordinator(public_keys)[1] =>
        /\ vote_query = NotCalled
        /\ cast_result = NotCalled

\* C12: in a call during which the chain records a vote of this node, no
\* vote is cast, whatever the ledger queries answer.
C12_NoCastWhenVoteRecorded ==
    ledger.vote # None => cast_result = NotCalled

\* C12 witness: with a group key in the coordinator engine the vote was
\* looked up, found recorded, and no vote was cast.
C12_Witness ==
    /\ pc = "next"
    /\ aggregate_public_key # None
    /\ ledger.vote = Some(GroupKey)
    /\ vote_query = Ok(Some(GroupKey))
    /\ cast_result = NotCalled

\* C13: for a batch that holds no authentic entry, process_event hands
\* the engines the empty list and, they having nothing to answer, returns
\* no packet and no result; and the rest of the event step, given no packet
\* and no result, sends nothing, emits nothing on the result channel and
\* leaves the state as the call found it.
C13_InvalidBatchChangesNothing ==
    /\ []((/\ pc = "event"
           /\ \A i \in 1..Len(event[1]) : ~Accepted(event[1][i])) =>
              /\ signer_inbound = Some(<<>>)
              /\ coordinator_inbound \in {None, Some(<<>>)}
              /\ state = entry_state)
    /\ [][(/\ pc = "event"
           /\ signer_inbound = Some(<<>>)
           /\ coordinator_inbound \in {None, Some(<<>>)}) =>
              /\ outbound_messages' = 0
              /\ operation_results' = 0
              /\ state' = state]_vars
    /\ []((/\ pc \in {"send", "results", "check"}
           /\ outbound_messages = 0
           /\ operation_results = 0) =>
              /\ send_calls = 0
              /\ res_sends = <<>>
              /\ res_send_result = NotCalled
              /\ state = entry_state)

\* C13 witness: on the coordinator, during a DKG round, process_event has
\* been given a batch of two packets with invalid signatures and has handed
\* the engines the empty list.
C13_Witness ==
    /\ pc = "event"
    /\ signer_id = 0
    /\ entry_state = "Dkg"
    /\ state = "Dkg"
    /\ Len(event[1]) = 2
    /\ \A i \in 1..2 : event[1][i] # Junk /\ ~Accepted(event[1][i])
    /\ coordinator_inbound = Some(<<>>)

C15_CoordinatorEngineOnlyOnCoordinator ==
    signer_id # calculate_coordinator(public_keys)[1] =>
        /\ start_calls = 0
        /\ resets = 0
        /\ coordinator_inbound = None

\* C16: results leave run_one_pass only through the result channel: once
\* the event step is over there has been one res.send, of the whole result
\* list, if process_event returned results, and none otherwise (none at all
\* in a call without an event, and none before the event step's end); and
\* whatever a call returned was None.
C16_ResultsOnlyThroughChannel ==
    /\ pc \in {"check", "next", "exec", "done"} =>
          res_sends = IF operation_results > 0 THEN <<operation_results>> ELSE <<>>
    /\ pc \in {"tick", "event", "send", "results"} => res_sends = <<>>
    /\ returned \in {NotCalled, None}

\* C16 witness: after a call that returned None, the event step of the next
\* call has sent its whole result list, once.
C16_Witness ==
    /\ pc = "check"
    /\ returned = None
    /\ operation_results = MaxResults
    /\ res_sends = <<MaxResults>>

\* C17: no step's effect on the state and the queue depends on what a
\* collaborator answered: the send loop makes one send per packet and
\* changes neither; the result step goes to Idle and emits exactly when
\* there are results; the check enqueues a Dkg exactly when it is required,
\* whatever the ledger queries and the vote cast answered; a started round
\* sets the state whatever the ack of its first message.
C17_FailuresChangeNothing ==
    [][/\ pc = "send" =>
            /\ send_calls' = outbound_messages
            /\ state' = state
            /\ commands' = commands
            /\ pc' = "results"
       /\ pc = "results" =>
            /\ state' = IF operation_results > 0 THEN "Idle" ELSE state
            /\ Len(res_sends') = IF operation_results > 0 THEN 1 ELSE 0
            /\ commands' = commands
       /\ pc = "check" =>
            /\ state' = state
            /\ commands' = IF DkgRequired THEN Append(commands, DkgCommand) ELSE commands
       /\ (pc = "exec" /\ start_ack' # NotCalled) =>
            /\ state' = running_state(command[1])
            /\ commands' = commands
            /\ pc' = "done"]_vars

\* C17 witness: of two packets sent one failed, and the result-channel send
\* failed; the round still ended.
C17_Witness ==
    /\ pc = "check"
    /\ outbound_messages = 2
    /\ send_calls = 2
    /\ send_errs = 1
    /\ res_send_result = Err
    /\ entry_state = "Dkg"
    /\ state = "Idle"

\* C18: whenever a call has computed the coordinator, on any node of any
\* group whose registry holds signer 0, the result is signer 0 with the key
\* the registry gives signer 0; the node's own id, state and queue play no
\* part in it.
C18_ElectionIsFirstSigner ==
    /\ elected # NotCalled => elected = <<0, registry[0]>>
    /\ pc \in {"event", "send", "results"} => elected # NotCalled
    /\ (pc = "next" /\ entry_state = "Idle" /\ operation_results = 0) => elected # NotCalled

\* C18 witness: signer 1, in a signing round and with a command waiting,
\* has computed the coordinator of a group whose signer 0 holds another key
\* than in public_keys.
C18_Witness ==
    /\ signer_id = 1
    /\ state = "Sign"
    /\ commands # <<>>
    /\ registry[0] # public_keys[0]
    /\ elected = <<0, registry[0]>>

\* C19: a call goes through its steps in one order: the arriving command is
\* enqueued, then the event is processed (its packets sent, then the return
\* to Idle and the results emitted), then the DKG-requirement check, then
\* the drain.  So the operator's Dkg command that arrives at an idle
\* coordinator with an empty queue and no group key is at the queue front
\* when the check runs: the check enqueues nothing, that one Dkg is
\* started, and the call ends with an empty queue.
C19_StepOrder ==
    /\ []((/\ pc = "done"
           /\ cmd = Some(DkgCommand)
           /\ entry_commands = <<>>
           /\ entry_state = "Idle"
           /\ aggregate_public_key = None
           /\ signer_id = 0) =>
              /\ dkg_needed = Some(FALSE)
              /\ command = Some(DkgCommand)
              /\ start_calls = start_errs + 1
              /\ state = "Dkg"
              /\ commands = <<>>)
    /\ [][/\ pc = "tick" =>
               /\ commands' = IF cmd' = None THEN commands ELSE Append(commands, cmd'[1])
               /\ state' = state
               /\ pc' = IF event' = None THEN "check" ELSE "event"
          /\ pc = "event" =>
               /\ UNCHANGED <<state, commands, send_calls, res_sends>>
               /\ pc' = "send"
          /\ pc = "send" =>
               /\ send_calls' = outbound_messages
               /\ UNCHANGED <<state, commands, res_sends>>
               /\ pc' = "results"
          /\ pc = "results" =>
               /\ commands' = commands
               /\ pc' = "check"
          /\ pc = "check" =>
               /\ dkg_needed' # None
               /\ state' = state
               /\ pc' = "next"
          /\ pc = "next" =>
               /\ state' = state
               /\ pc' \in {"exec", "done"}
          /\ pc = "exec" =>
               /\ commands' = commands
               /\ pc' \in {"exec", "done"}
          /\ pc = "done" =>
               /\ UNCHANGED <<state, commands>>
               /\ pc' = "tick"]_vars

\* C19 witness: the operator's Dkg command arrived at an idle coordinator
\* with an empty queue and no group key, and the call is over.
C19_Witness ==
    /\ pc = "done"
    /\ cmd = Some(DkgCommand)
    /\ entry_commands = <<>>
    /\ entry_state = "Idle"
    /\ aggregate_public_key = None
    /\ signer_id = 0
    /\ dkg_needed = Some(FALSE)
    /\ start_calls = 1
    /\ state = "Dkg"
    /\ commands = <<>>

\* C20: a call that popped a command leaves the retry loop only by a start
\* that succeeded; as long as the starts fail it stays there, Idle, and
\* takes no other command or event.  A call whose drain step finds the
\* state not Idle or the queue empty attempts no start and returns, and so
\* does a call whose start succeeded.
C20_ReturnsIffStarted ==
    /\ [][pc = "exec" =>
            \/ /\ pc' = "exec"
               /\ start_errs' = start_errs + 1
               /\ state' = "Idle"
               /\ UNCHANGED <<commands, cmd, event, entry_commands, returned>>
            \/ /\ pc' = "done"
               /\ start_errs' = start_errs
               /\ start_calls' = start_calls + 1
               /\ state' # "Idle"]_vars
    /\ [](pc = "exec" => state = "Idle" /\ start_calls = start_errs)
    /\ (pc = "next" /\ ~(state = "Idle" /\ commands # <<>>)) ~> (pc = "done" /\ start_calls = 0)
    /\ (pc = "done") ~> (pc = "tick")

\* C20 witness: every start attempt so far has failed; the call has not
\* returned and the state is still Idle.
C20_Witness ==
    /\ pc = "exec"
    /\ start_errs = MaxFails
    /\ start_calls = MaxFails
    /\ state = "Idle"

\* C21: on a node that is not the elected coordinator process_event never
\* returns a result; so once a command has been started there, no step
\* changes the state again, no command is dequeued and no start attempted:
\* what is queued stays queued.
C21_NonCoordinatorNeverIdleAgain ==
    [][signer_id # calculate_coordinator(registry)[1] =>
          /\ operation_results' = 0
          /\ state # "Idle" =>
                /\ state' = state
                /\ IsPrefix(commands, commands')
                /\ start_calls' <= start_calls
                /\ pc' # "exec"]_vars

\* C21 witness: signer 1 began a call in a signing round with a command
\* waiting; the call's event brought authentic messages, the answers to
\* them were sent, and the round goes on with the command still queued.
C21_Witness ==
    /\ signer_id = 1
    /\ pc = "check"
    /\ entry_state = "Sign"
    /\ state = "Sign"
    /\ entry_commands # <<>>
    /\ commands # <<>>
    /\ send_calls > 0

\* The messages received hold a DkgEnd among the first k.
DkgEndAmongFirst(k) ==
    \E i \in 1..k : i <= Len(received) /\ received[i] = "DkgEnd"

\* C22: wait_for_dkg_end(n) never receives more than n+1 messages; it
\* returns Ok exactly when a DkgEnd is among the first n received, and has
\* then received nothing after it; it returns MaxAttemptsReached exactly
\* when it has received n+1 messages with no DkgEnd among the first n,
\* whatever the last one is; it returns Timeout only when a wait gave up
\* before either; and until it returns, attempts counts the messages left.
C22_WaitForDkgEnd ==
    /\ Len(received) <= max_attempts + 1
    /\ dkg_end_result = Ok(None) <=> DkgEndAmongFirst(max_attempts)
    /\ dkg_end_result = Ok(None) =>
          /\ received[Len(received)] = "DkgEnd"
          /\ ~DkgEndAmongFirst(Len(received) - 1)
    /\ dkg_end_result = MaxAttemptsReached <=>
          /\ Len(received) = max_attempts + 1
          /\ ~DkgEndAmongFirst(max_attempts)
    /\ dkg_end_result \in {Timeout, Waiting} =>
          /\ Len(received) <= max_attempts
          /\ ~DkgEndAmongFirst(max_attempts)
    /\ dkg_end_result = Waiting => attempts = max_attempts - Len(received)

\* C22 witness: wait_for_dkg_end(n), n > 0, received n messages that are
\* not DkgEnd and then a DkgEnd, and returned MaxAttemptsReached.
C22_Witness ==
    /\ max_attempts > 0
    /\ Len(received) = max_attempts + 1
    /\ received[max_attempts + 1] = "DkgEnd"
    /\ dkg_end_result = MaxAttemptsReached

====
